---- MODULE Spec2Model ----
(***************************************************************************)
(* Model of the chat pipeline of the Brandon asset-search service:         *)
(*   - lib/rate-limit.ts : the process-local rate limiter                  *)
(*   - app/api/chat/route.ts (createSSEResponse, POST, processRequest)     *)
(***************************************************************************)
EXTENDS Integers, Sequences, FiniteSets, TLC

(***************************************************************************)
(* Bounds of the model.                                                    *)
(***************************************************************************)
\* Date.now() advances in steps of windowMs / TicksPerWindow.
TicksPerWindow == 2
\* A window's count is driven at most MaxOver past config.maxRequests.
MaxOver == 2

(***************************************************************************)
(* State.                                                                  *)
(***************************************************************************)
VARIABLES
    now,      \* Date.now(), in ms
    store,    \* rate-limit.ts: const store, identifier -> entry
    cfg,      \* the RateLimitConfig the callers pass
    last,     \* the most recent checkRateLimit call: its arguments and result
    nth,      \* per identity: calls made so far in its stored window
    admitted, \* per identity: calls admitted so far in its stored window
    probe,    \* an observer counting admissions inside one interval of windowMs
    req,      \* per slot: the request being processed
    started,  \* requests accepted so far
    admin,    \* the request an admin endpoint is processing
    client    \* the chat page: its state and the response it is reading

rlvars == <<store, last, nth, admitted, probe>>
vars == <<now, store, cfg, last, nth, admitted, probe, req, started, admin, client>>

\* The callers' identities (user.id).
Users == {"u1", "u2"}

(***************************************************************************)
(* lib/rate-limit.ts                                                       *)
(***************************************************************************)
DEFAULT_RATE_LIMIT == [windowMs |-> 60 * 1000, maxRequests |-> 20]

\* A small configuration of the same shape, for the checks that need to see
\* several windows fill up.
SMALL_RATE_LIMIT == [windowMs |-> 60 * 1000, maxRequests |-> 4]

\* store[key] undefined
NoEntry == [present |-> FALSE, count |-> 0, resetTime |-> 0]

\* Faulty variant: Math.max(0, x) dropped: remaining is not floored.
NoFloor(a, b) == b

Max(a, b) == IF a >= b THEN a ELSE b

\* Faulty variant: the comparison written as resetTime <= now.
ExpiredAtOrAfter(st, key, t) == st[key].present /\ st[key].resetTime <= t

\* store[key] && store[key].resetTime < now
Expired(st, key, t) == st[key].present /\ st[key].resetTime < t

\* Faulty variant: the expired entry is kept.
NoCleanUp(st, key, t) == st

\* if (expired) delete store[key]
CleanUp(st, key, t) == IF Expired(st, key, t) THEN [st EXCEPT ![key] = NoEntry] ELSE st

\* if (!store[key]) store[key] = { count: 0, resetTime: now + config.windowMs }
Initialize(st, key, config, t) ==
    IF ~st[key].present
    THEN [st EXCEPT ![key] = [present |-> TRUE, count |-> 0,
                              resetTime |-> t + config.windowMs]]
    ELSE st

\* Faulty variant: a read-modify-write spread over an await, so that the
\* increment of a request is lost while another request of the identity is in
\* flight.
IncrementRacy(st, key) ==
    IF \E s \in DOMAIN req : req[s].uid = key /\ req[s].pc \notin {"idle", "done"}
    THEN st
    ELSE [st EXCEPT ![key].count = @ + 1]

\* Faulty variant: the call is counted twice.
IncrementTwice(st, key) == [st EXCEPT ![key].count = @ + 2]

\* limitInfo.count++
Increment(st, key) == [st EXCEPT ![key].count = @ + 1]

\* checkRateLimit(identifier, config) at Date.now() = t on the store st:
\* the store it leaves and the RateLimitInfo it returns.
checkRateLimit(st, identifier, config, t) ==
    LET s == Increment(Initialize(CleanUp(st, identifier, t), identifier, config, t),
                       identifier)
        remaining == Max(0, config.maxRequests - s[identifier].count)
    IN  [store |-> s,
         info  |-> [limit |-> config.maxRequests,
                    remaining |-> remaining,
                    reset |-> s[identifier].resetTime]]

\* Faulty variant: every message passes the filter.
IsAnyRole(m) == TRUE

\* Faulty variant: the gate never rejects.
NeverLimited(info) == info.remaining < 0

isRateLimited(info) == info.remaining <= 0

(***************************************************************************)
(* app/api/chat/route.ts: the progress stream (createSSEResponse).         *)
(***************************************************************************)
\* The requests that can be in flight at once.
Slots == {"r1", "r2"}
\* Requests accepted in one run of the model.
MaxStarts == 2
\* Matches the index adds to a base list in the ranking's own specification.
MaxExtra == 3

NoReset == <<>>
\* new Date(reset).toISOString(): the instant, as text.
ISO(ms) == <<"ISO", ms>>

StatusEvent(label, n) ==
    [type |-> "status", text |-> label, n |-> n, reset |-> NoReset, assets |-> <<>>]
\* { error: error.message || 'Internal server error' }
ErrorEvent(msg) ==
    [type |-> "error", text |-> IF msg = "" THEN "Internal server error" ELSE msg,
     n |-> 0, reset |-> NoReset, assets |-> <<>>]
RateLimitEvent(info) ==
    [type |-> "error", text |-> "Rate limit exceeded", n |-> 0,
     reset |-> ISO(info.reset), assets |-> <<>>]
ResultEvent(resp) ==
    [type |-> "result", text |-> resp.assistant_message, n |-> 0, reset |-> NoReset,
     assets |-> resp.assets]

Entry(k, name) == [k |-> k, name |-> name]

\* What controller.enqueue and controller.close throw on a stream that is no
\* longer readable.
InvalidState == "Invalid state"

\* A throw inside the running block.
Throw(r, msg) == [r EXCEPT !.exc = msg]

\* An awaited remote call rejects: the error it throws.
Fail(r, call, msg) == Throw([r EXCEPT !.failed = @ \cup {call}], msg)

\* Faulty variant: the error of an insert is thrown.
ThrowError(r, call, err) == IF err THEN Fail(r, call, "Failed to save message") ELSE r

\* if (saveError) console.error(...): the failed insert is logged, nothing else.
ConsoleError(r, call, err) == IF err THEN [r EXCEPT !.failed = @ \cup {call}] ELSE r

\* send(event): controller.enqueue(encoder.encode(message))
send(r, ev) ==
    IF r.strm = "readable"
    THEN [r EXCEPT !.events = Append(@, ev), !.log = Append(@, Entry(ev.type, ev.text))]
    ELSE [r EXCEPT !.exc = InvalidState, !.faults = @ + 1,
                   !.late = @ + (IF r.strm = "closed" THEN 1 ELSE 0),
                   !.log = Append(@, Entry("throw", "send"))]

\* close(): controller.close()
close(r) ==
    IF r.strm = "readable"
    THEN [r EXCEPT !.strm = "closed", !.log = Append(@, Entry("close", ""))]
    ELSE [r EXCEPT !.exc = InvalidState, !.faults = @ + 1,
                   !.late = @ + (IF r.strm = "closed" THEN 1 ELSE 0),
                   !.log = Append(@, Entry("throw", "close"))]

\* Consecutive sends; a throw leaves the block.
RECURSIVE SendAll(_, _)
SendAll(r, evs) ==
    IF evs = <<>> \/ r.exc # "" THEN r ELSE SendAll(send(r, Head(evs)), Tail(evs))

\* return
Return(r) == IF r.exc = "" THEN [r EXCEPT !.pc = "done"] ELSE r

\* Faulty variant: close() forgotten after the terminal event.
ReplyWithoutClose(r, ev) == Return(send(r, ev))

\* send(event); close(); return
Reply(r, ev) ==
    LET r1 == send(r, ev)
    IN  IF r1.exc = "" THEN Return(close(r1)) ELSE r1

\* await <call>: the call is issued and the function suspends at pc.
Await(r, call, pc) ==
    IF r.exc = "" THEN [r EXCEPT !.pc = pc, !.log = Append(@, Entry("call", call))] ELSE r

\* Faulty variant: the catch block only logs the error.
CatchSilent(r) == IF r.exc = "" THEN r ELSE [r EXCEPT !.exc = "", !.pc = "done"]

\* processRequest: catch (error) { send({type: 'error', ...}); close() }
Catch(r) ==
    IF r.exc = "" THEN r ELSE Reply([r EXCEPT !.exc = ""], ErrorEvent(r.exc))

\* POST: processRequest(...).catch((error) => { send({type: 'error', ...}); close() })
PostCatch(r) ==
    IF r.exc = "" THEN r ELSE Reply([r EXCEPT !.exc = ""], ErrorEvent(r.exc))

\* The block that ran up to its next await, its return or its throw, with both
\* handlers applied; a throw that leaves POST's handler is an unhandled rejection.
Settle(r) ==
    LET h == PostCatch(Catch(r))
    IN  IF h.exc # ""
        THEN [h EXCEPT !.exc = "", !.unhandled = TRUE, !.pc = "done"]
        ELSE h

(***************************************************************************)
(* The request body: ChatRequestSchema.                                    *)
(***************************************************************************)
Msg(role, content) == [role |-> role, content |-> content]

\* request.json() and ChatRequestSchema.parse(body): a body that is not JSON or
\* not of the schema's shape throws.
Bodies ==
    { [valid |-> FALSE, messages |-> <<>>],
      [valid |-> TRUE,  messages |-> <<>>],
      [valid |-> TRUE,  messages |-> <<Msg("assistant", "a0")>>],
      [valid |-> TRUE,  messages |-> <<Msg("user", "q1")>>],
      [valid |-> TRUE,  messages |-> <<Msg("user", "q1"), Msg("assistant", "a1"),
                                       Msg("user", "q2"), Msg("assistant", "a2")>>] }

IsUser(m) == m.role = "user"

\* Faulty variant: the first user message is taken.
FirstUserMessage(userMessages) == userMessages[1]

\* latestUserMessage = userMessages[userMessages.length - 1]
LatestUserMessage(userMessages) == userMessages[Len(userMessages)]

\* The bodies a specification draws from: all of them, or one well-formed body.
BodiesOf(all) == IF all THEN Bodies ELSE {b \in Bodies : b.valid /\ Len(b.messages) = 1 /\ IsUser(b.messages[1])}

(***************************************************************************)
(* Re-ranking (processRequest, "Re-rank by recency").                      *)
(* Time is in days, image_purchase_date is given as days before now        *)
(* (negative: in the future); similarity is in thousandths.                *)
(***************************************************************************)
\* THREE_YEARS_MS = 3 * 365 * 24 * 60 * 60 * 1000, in days
THREE_YEARS == 3 * 365
\* ALPHA = 0.8 = AlphaNum / AlphaDen
AlphaNum == 4
AlphaDen == 5
\* candidates.slice(0, 10)
TopN == 10
\* similarity 1.0
ScoreOne == 1000

Match(id, score, hasDate, daysAgo) ==
    [id |-> id, score |-> score, hasDate |-> hasDate, daysAgo |-> daysAgo]

\* purchaseDateMs = image_purchase_date || now;  age = now - purchaseDateMs
Age(m) == IF m.hasDate THEN m.daysAgo ELSE 0

\* recencyScore = Math.max(0, 1 - age / THREE_YEARS_MS), in units of 1/THREE_YEARS
RecencyScore(m) == Max(0, THREE_YEARS - Age(m))

\* combinedScore = ALPHA * score + (1 - ALPHA) * recencyScore,
\* in units of 1 / (ScoreOne * THREE_YEARS * AlphaDen)
CombinedScore(m) ==
    AlphaNum * THREE_YEARS * m.score + (AlphaDen - AlphaNum) * ScoreOne * RecencyScore(m)

Candidate(m) ==
    [id |-> m.id, similarity |-> m.score, recencyScore |-> RecencyScore(m),
     combinedScore |-> CombinedScore(m)]

\* pineconeResults.map(...)
Candidates(matches) == [i \in 1..Len(matches) |-> Candidate(matches[i])]

\* Faulty variant: a candidate is put before the candidates of equal score.
RECURSIVE InsertDescUnstable(_, _)
InsertDescUnstable(c, sorted) ==
    IF sorted = <<>> THEN <<c>>
    ELSE IF Head(sorted).combinedScore > c.combinedScore
         THEN <<Head(sorted)>> \o InsertDescUnstable(c, Tail(sorted))
         ELSE <<c>> \o sorted

\* Faulty variant: the candidates are left in the order of the index.
NoSort(cs) == cs

\* Array.prototype.sort with (a, b) => b.combinedScore - a.combinedScore: stable,
\* descending.
RECURSIVE InsertDesc(_, _)
InsertDesc(c, sorted) ==
    IF sorted = <<>> THEN <<c>>
    ELSE IF Head(sorted).combinedScore >= c.combinedScore
         THEN <<Head(sorted)>> \o InsertDesc(c, Tail(sorted))
         ELSE <<c>> \o sorted

RECURSIVE SortDesc(_)
SortDesc(cs) ==
    IF cs = <<>> THEN <<>>
    ELSE InsertDesc(cs[Len(cs)], SortDesc(SubSeq(cs, 1, Len(cs) - 1)))

\* candidates.slice(0, 10)
Slice(cs) == SubSeq(cs, 1, IF Len(cs) < TopN THEN Len(cs) ELSE TopN)

TopCandidates(matches) == Slice(SortDesc(Candidates(matches)))

\* What the index returns (queryVectors, topK = 30): no match, a few matches,
\* more matches than are passed on.
FewMatches ==
    << Match("a1", 900, TRUE, 2000), Match("a2", 700, TRUE, 0), Match("a3", 700, FALSE, 0) >>
ManyMatches ==
    [i \in 1..(TopN + 2) |->
        Match(<<"a1", "a2", "a3", "a4", "a5", "a6", "a7", "a8", "a9", "a10", "a11", "a12">>[i],
              500 + 10 * i, TRUE, 100 * i)]
MatchLists == { <<>>, FewMatches, ManyMatches }

MatchListsOf(all) == IF all THEN MatchLists ELSE { FewMatches }

\* The matches the ranking's own specification builds its lists from: the
\* similarity is 0, 0.6 or 1; the purchase date is absent, a year ahead of now,
\* now, exactly three years old, or older.
RankScores == {0, 600, ScoreOne}
RankDates ==
    { [hasDate |-> FALSE, daysAgo |-> 0], [hasDate |-> TRUE, daysAgo |-> 0 - 365],
      [hasDate |-> TRUE, daysAgo |-> 0], [hasDate |-> TRUE, daysAgo |-> THREE_YEARS],
      [hasDate |-> TRUE, daysAgo |-> 2000] }
IdNames ==
    << "a1", "a2", "a3", "a4", "a5", "a6", "a7", "a8", "a9", "a10", "a11", "a12",
       "a13", "a14", "a15", "a16" >>
\* The lists it starts from: no match, or one match less than are passed on,
\* of two kinds in turn, so that several candidates have the same score.
BaseMatches ==
    [i \in 1..(TopN - 1) |->
        IF i % 2 = 1 THEN Match(IdNames[i], 600, TRUE, 0)
                     ELSE Match(IdNames[i], ScoreOne, TRUE, THREE_YEARS)]
BaseLists == { <<>>, BaseMatches }

Ids(seq) == {seq[i].id : i \in 1..Len(seq)}

(***************************************************************************)
(* lib/gemini.ts: generateChatResponse.                                    *)
(***************************************************************************)
\* An identifier that is a well-formed UUID and names no candidate.
FabricatedId == "f0"
\* An identifier that is not a UUID.
MalformedId == "not-a-uuid"
\* z.string().uuid()
IsUuid(id) == id # MalformedId

Asset(id) == [id |-> id]

\* What the generative model may answer for the candidates it was given: an API
\* failure, text that is not JSON, or JSON with some assets.
ModelOutputs(top) ==
    { [kind |-> "apiError", assistant_message |-> "", assets |-> <<>>],
      [kind |-> "notJson", assistant_message |-> "", assets |-> <<>>],
      [kind |-> "json", assistant_message |-> "Sorry, nothing matches.", assets |-> <<>>],
      [kind |-> "json", assistant_message |-> "", assets |-> <<>>],
      [kind |-> "json", assistant_message |-> "Found.", assets |-> <<Asset(FabricatedId)>>],
      [kind |-> "json", assistant_message |-> "Found.", assets |-> <<Asset(MalformedId)>>] }
    \cup
    { [kind |-> "json", assistant_message |-> "Found.",
       assets |-> [i \in 1..k |-> Asset(top[i].id)]] : k \in 1..(IF Len(top) < 2 THEN Len(top) ELSE 2) }

ModelOutputsOf(all, top) ==
    IF all THEN ModelOutputs(top)
    ELSE {o \in ModelOutputs(top) : o.kind = "apiError" \/ (o.kind = "json" /\ Len(o.assets) = 1)}

\* GeminiChatResponseSchema.parse(parsed)
SchemaOk(out) == \A i \in 1..Len(out.assets) : IsUuid(out.assets[i].id)

\* Faulty variant: the parsed JSON is returned without the schema's check.
generateChatResponseUnchecked(out) ==
    IF out.kind = "json"
    THEN [ok |-> TRUE, assistant_message |-> out.assistant_message, assets |-> out.assets]
    ELSE [ok |-> FALSE, assistant_message |-> "", assets |-> <<>>]

\* generateChatResponse: the validated response, or the throw of
\* 'Failed to generate chat response'.
generateChatResponse(out) ==
    IF out.kind = "json" /\ SchemaOk(out)
    THEN [ok |-> TRUE, assistant_message |-> out.assistant_message, assets |-> out.assets]
    ELSE [ok |-> FALSE, assistant_message |-> "", assets |-> <<>>]

(***************************************************************************)
(* The model's bookkeeping records and the clock.                          *)
(***************************************************************************)
NoCall == [valid |-> FALSE, id |-> "u1", at |-> 0, before |-> NoEntry,
           after |-> NoEntry, info |-> [limit |-> 0, remaining |-> 0, reset |-> 0],
           limited |-> FALSE, nth |-> 0]

NoProbe == [on |-> FALSE, id |-> "u1", start |-> 0, n |-> 0]

NoResp == [ok |-> FALSE, assistant_message |-> "", assets |-> <<>>]

\* The generative model has not answered.
NoOut == [kind |-> "none", assistant_message |-> "", assets |-> <<>>]

\* A slot with no request.
IdleReq ==
    [pc |-> "idle",          \* the await the request is suspended at
     strm |-> "none",        \* the ReadableStream: readable, closed, cancelled
     events |-> <<>>,        \* the events enqueued on the stream
     log |-> <<>>,           \* sends, closes, throws and external calls, in order
     uid |-> "",             \* user.id
     limited |-> FALSE,      \* isRateLimited(rateLimitInfo)
     query |-> "",           \* userQuery
     storedUser |-> "",      \* the content of the user turn's insert
     embedded |-> "",        \* the argument of generateEmbedding
     prompted |-> "",        \* the first argument of generateChatResponse
     parsed |-> FALSE,       \* ChatRequestSchema.parse(body) returned
     given |-> <<>>,         \* the body's messages
     matches |-> <<>>,       \* pineconeResults
     scored |-> <<>>,        \* candidates, as mapped from the matches
     top |-> <<>>,           \* topCandidates
     out |-> NoOut,          \* what the generative model answered
     resp |-> NoResp,        \* geminiResponse
     failed |-> {},          \* the remote calls that failed
     exc |-> "",             \* the error being thrown, "" when none
     faults |-> 0,           \* TypeErrors thrown by send and close
     late |-> 0,             \* sends and closes tried after close()
     unhandled |-> FALSE]    \* a rejection no handler caught

\* No request at the admin endpoints.
IdleAdmin ==
    [route |-> "none",       \* the endpoint
     pc |-> "idle",          \* the await the handler is suspended at
     user |-> "",            \* the authenticated user's id
     roleRow |-> "none",     \* what the user_roles query returned
     effects |-> <<>>,       \* the side effects issued, in order
     status |-> 0,           \* the HTTP status of the response, 0 when none
     world |-> {}]           \* what the requests so far left stored

\* The chat page before a message is sent.
IdleClient ==
    [pc |-> "idle",          \* idle, reading the response, done
     sent |-> <<>>,          \* the events the server wrote to the response
     wire |-> <<>>,          \* the part of the response not read yet
     handled |-> <<>>,       \* the events parsed from the chunks, in order
     statusMessage |-> "",
     assistantMessage |-> "",
     assets |-> <<>>,
     messages |-> <<>>,      \* the displayed conversation
     console |-> <<>>,       \* console.error calls
     alerted |-> ""]         \* alert(error.message)

TickMs == cfg.windowMs \div TicksPerWindow

\* Date.now() moves on.
Tick(horizon) ==
    /\ now + TickMs <= horizon
    /\ now' = now + TickMs
    /\ UNCHANGED <<cfg, rlvars, req, started, admin, client>>

\* The window of identity id after a call that left entry e: a new window has a
\* new resetTime.
NthAfter(id, e) ==
    IF store[id].present /\ store[id].resetTime = e.resetTime THEN nth[id] + 1 ELSE 1

AdmittedAfter(id, e, limited) ==
    LET sofar == IF store[id].present /\ store[id].resetTime = e.resetTime
                 THEN admitted[id] ELSE 0
    IN  IF limited THEN sofar ELSE sofar + 1

\* The observer counts the call when it is admitted inside its interval.
ProbeAfter(id, limited) ==
    IF probe.on /\ probe.id = id /\ ~limited
       /\ probe.start <= now /\ now < probe.start + cfg.windowMs
    THEN [probe EXCEPT !.n = @ + 1]
    ELSE probe

\* The rate-limit gate of a request of identity id:
\* rateLimitInfo = checkRateLimit(user.id); isRateLimited(rateLimitInfo).
Gate(id) ==
    LET r == checkRateLimit(store, id, cfg, now)
        limited == isRateLimited(r.info)
    IN  /\ store' = r.store
        /\ last' = [valid |-> TRUE, id |-> id, at |-> now, before |-> store[id],
                    after |-> r.store[id], info |-> r.info, limited |-> limited,
                    nth |-> NthAfter(id, r.store[id])]
        /\ nth' = [nth EXCEPT ![id] = NthAfter(id, r.store[id])]
        /\ admitted' = [admitted EXCEPT ![id] = AdmittedAfter(id, r.store[id], limited)]
        /\ probe' = ProbeAfter(id, limited)

\* A direct call of the limiter.
Check(id) ==
    /\ Expired(store, id, now) \/ store[id].count < cfg.maxRequests + MaxOver
    /\ Gate(id)
    /\ UNCHANGED <<now, cfg, req, started, admin, client>>

\* The observer starts watching the interval [now, now + windowMs) of identity id.
StartProbe(id) ==
    /\ ~probe.on
    /\ probe' = [on |-> TRUE, id |-> id, start |-> now, n |-> 0]
    /\ UNCHANGED <<now, store, cfg, last, nth, admitted, req, started, admin, client>>

(***************************************************************************)
(* app/api/chat/route.ts: POST and processRequest, one action per stretch  *)
(* of code between two awaits.                                             *)
(***************************************************************************)
\* POST: the stream is created and processRequest runs up to `await requireAuth`.
POST(s) ==
    /\ req[s].pc \in {"idle", "done"}
    /\ started < MaxStarts
    /\ \E hasAuth \in BOOLEAN :
         LET r0 == [IdleReq EXCEPT !.strm = "readable"]
             r1 == IF ~hasAuth
                   THEN Reply(r0, ErrorEvent("Unauthorized"))
                   ELSE Await(r0, "requireAuth", "auth")
         IN  req' = [req EXCEPT ![s] = Settle(r1)]
    /\ started' = started + 1
    /\ UNCHANGED <<now, cfg, rlvars, admin, client>>

\* requireAuth throws AuthError('Not authenticated').
AuthFails(s) ==
    /\ req[s].pc = "auth"
    /\ req' = [req EXCEPT ![s] = Settle(Throw(req[s], "Not authenticated"))]
    /\ UNCHANGED <<now, cfg, rlvars, started, admin, client>>

\* requireAuth returns the user; the rate-limit gate; up to `await request.json()`.
AuthReturns(s) ==
    /\ req[s].pc = "auth"
    /\ \E u \in Users :
         LET info == checkRateLimit(store, u, cfg, now).info
             r1 == [req[s] EXCEPT !.uid = u]
             r2 == IF isRateLimited(info)
                   THEN Reply([r1 EXCEPT !.limited = TRUE], RateLimitEvent(info))
                   ELSE Await(r1, "request.json", "json")
         IN  /\ Gate(u)
             /\ req' = [req EXCEPT ![s] = Settle(r2)]
    /\ UNCHANGED <<now, cfg, started, admin, client>>

\* Faulty variant: the user turn is not saved before the embedding is asked for.
JsonReturnsNoSave(s, all) ==
    /\ req[s].pc = "json"
    /\ \E b \in BodiesOf(all) :
         LET userMessages == SelectSeq(b.messages, IsUser)
             r1 == [req[s] EXCEPT !.given = b.messages, !.parsed = b.valid]
             r2 == IF ~b.valid THEN Throw(r1, "Invalid request")
                   ELSE IF Len(userMessages) = 0
                        THEN Reply(r1, ErrorEvent("No user message found"))
                        ELSE Await(SendAll([r1 EXCEPT !.query = LatestUserMessage(userMessages).content,
                                                       !.embedded = LatestUserMessage(userMessages).content],
                                           << StatusEvent("Analyzing your query...", 0) >>),
                                   "generateEmbedding", "embed")
         IN  req' = [req EXCEPT ![s] = Settle(r2)]
    /\ UNCHANGED <<now, cfg, rlvars, started, admin, client>>

\* request.json() returns; ChatRequestSchema.parse; the latest user message; up
\* to the await of the user turn's insert.
JsonReturns(s, all) ==
    /\ req[s].pc = "json"
    /\ \E b \in BodiesOf(all) :
         LET userMessages == SelectSeq(b.messages, IsUser)
             r1 == [req[s] EXCEPT !.given = b.messages, !.parsed = b.valid]
             r2 == IF ~b.valid THEN Throw(r1, "Invalid request")
                   ELSE IF Len(userMessages) = 0
                        THEN Reply(r1, ErrorEvent("No user message found"))
                        ELSE Await([r1 EXCEPT !.query = LatestUserMessage(userMessages).content,
                                               !.storedUser = LatestUserMessage(userMessages).content],
                                   "insert user", "saveUser")
         IN  req' = [req EXCEPT ![s] = Settle(r2)]
    /\ UNCHANGED <<now, cfg, rlvars, started, admin, client>>

\* The user turn's insert returns, with or without saveUserError (logged only);
\* status 'Analyzing your query...'; up to `await generateEmbedding`.
SaveUserReturns(s) ==
    /\ req[s].pc = "saveUser"
    /\ \E saveUserError \in BOOLEAN :
         LET r0 == ConsoleError(req[s], "insert user", saveUserError)
             r1 == SendAll(r0, << StatusEvent("Analyzing your query...", 0) >>)
             r2 == Await([r1 EXCEPT !.embedded = r1.query], "generateEmbedding", "embed")
         IN  req' = [req EXCEPT ![s] = Settle(r2)]
    /\ UNCHANGED <<now, cfg, rlvars, started, admin, client>>

\* generateEmbedding throws.
EmbedFails(s) ==
    /\ req[s].pc = "embed"
    /\ req' = [req EXCEPT ![s] = Settle(Fail(req[s], "generateEmbedding", "Failed to generate embedding"))]
    /\ UNCHANGED <<now, cfg, rlvars, started, admin, client>>

\* generateEmbedding returns; up to the await of the approved-asset count.
EmbedReturns(s) ==
    /\ req[s].pc = "embed"
    /\ req' = [req EXCEPT ![s] = Settle(Await(req[s], "count assets", "count"))]
    /\ UNCHANGED <<now, cfg, rlvars, started, admin, client>>

\* The count returns, {count: null} when the query failed (its error is not
\* read; totalAssets?.toLocaleString() || 0); status 'Searching through X
\* assets...'; up to `await queryVectors`.
CountReturns(s, all) ==
    /\ req[s].pc = "count"
    /\ \E countError \in (IF all THEN BOOLEAN ELSE {FALSE}) :
       \E count \in (IF countError THEN {0} ELSE IF all THEN {0, 7} ELSE {7}) :
         LET r0 == IF countError THEN [req[s] EXCEPT !.failed = @ \cup {"count assets"}]
                   ELSE req[s]
             r1 == send(r0, StatusEvent("Searching through X assets...", count))
             r2 == Await(r1, "queryVectors", "query")
         IN  req' = [req EXCEPT ![s] = Settle(r2)]
    /\ UNCHANGED <<now, cfg, rlvars, started, admin, client>>

\* queryVectors throws 'Failed to query vectors'.
QueryFails(s) ==
    /\ req[s].pc = "query"
    /\ req' = [req EXCEPT ![s] = Settle(Fail(req[s], "queryVectors", "Failed to query vectors"))]
    /\ UNCHANGED <<now, cfg, rlvars, started, admin, client>>

\* Faulty variant: the two status events in the other order.
QueryStatusesSwapped(n) ==
    << StatusEvent("Ranking by relevance and recency...", 0),
       StatusEvent("Found X potential matches", n) >>

\* The status events sent when queryVectors has returned n matches.
QueryStatuses(n) ==
    << StatusEvent("Found X potential matches", n),
       StatusEvent("Ranking by relevance and recency...", 0) >>

\* queryVectors returns the matches; statuses 'Found X potential matches' and
\* 'Ranking by relevance and recency...'; re-rank; status 'Generating
\* response...'; up to `await generateChatResponse`.
QueryReturns(s, all) ==
    /\ req[s].pc = "query"
    /\ \E pineconeResults \in MatchListsOf(all) :
         LET r1 == SendAll([req[s] EXCEPT !.matches = pineconeResults],
                           QueryStatuses(Len(pineconeResults)))
             r2 == IF r1.exc = ""
                   THEN [r1 EXCEPT !.scored = Candidates(pineconeResults),
                                   !.top = TopCandidates(pineconeResults),
                                   !.log = Append(@, Entry("stage", "rank"))]
                   ELSE r1
             r3 == SendAll(r2, << StatusEvent("Generating response...", 0) >>)
             r4 == Await([r3 EXCEPT !.prompted = r3.query], "generateChatResponse", "generate")
         IN  req' = [req EXCEPT ![s] = Settle(r4)]
    /\ UNCHANGED <<now, cfg, rlvars, started, admin, client>>

\* Faulty variant: the result is sent without saving the assistant turn.
GenerateReturnsNoSave(s, all) ==
    /\ req[s].pc = "generate"
    /\ \E out \in ModelOutputsOf(all, req[s].top) :
         LET g == generateChatResponse(out)
             r0 == [req[s] EXCEPT !.out = out]
             r1 == IF g.ok
                   THEN Reply([r0 EXCEPT !.resp = g], ResultEvent(g))
                   ELSE Fail(r0, "generateChatResponse", "Failed to generate chat response")
         IN  req' = [req EXCEPT ![s] = Settle(r1)]
    /\ UNCHANGED <<now, cfg, rlvars, started, admin, client>>

\* generateChatResponse returns the validated response or throws; up to the
\* await of the assistant turn's insert.
GenerateReturns(s, all) ==
    /\ req[s].pc = "generate"
    /\ \E out \in ModelOutputsOf(all, req[s].top) :
         LET g == generateChatResponse(out)
             r0 == [req[s] EXCEPT !.out = out]
             r1 == IF g.ok
                   THEN Await([r0 EXCEPT !.resp = g], "insert assistant", "saveAssistant")
                   ELSE Fail(r0, "generateChatResponse", "Failed to generate chat response")
         IN  req' = [req EXCEPT ![s] = Settle(r1)]
    /\ UNCHANGED <<now, cfg, rlvars, started, admin, client>>

\* The assistant turn's insert returns, with or without saveAssistantError
\* (logged only); the result event; close().
SaveAssistantReturns(s) ==
    /\ req[s].pc = "saveAssistant"
    /\ \E saveAssistantError \in BOOLEAN :
         LET r0 == ConsoleError(req[s], "insert assistant", saveAssistantError)
             r1 == IF r0.exc = "" THEN Reply(r0, ResultEvent(r0.resp)) ELSE r0
         IN  req' = [req EXCEPT ![s] = Settle(r1)]
    /\ UNCHANGED <<now, cfg, rlvars, started, admin, client>>

\* The caller disconnects: the stream is cancelled while the request runs.
Disconnect(s) ==
    /\ req[s].pc \notin {"idle", "done"}
    /\ req[s].strm = "readable"
    /\ req' = [req EXCEPT ![s].strm = "cancelled"]
    /\ UNCHANGED <<now, cfg, rlvars, started, admin, client>>

(***************************************************************************)
(* lib/auth-helpers.ts and the admin endpoints                             *)
(* app/api/admin/ingest/route.ts, app/api/admin/generate-description/      *)
(* route.ts: one action per stretch of code between two awaits.            *)
(***************************************************************************)
AdminRoutes == {"ingest", "generate-description"}

\* What the user_roles query returns for a user: the row's role, no row, or an
\* error.
RoleRows == {"admin", "user", "missing", "error"}

\* Faulty variant: a user without a readable role row is taken for an admin.
getUserRoleDefaultAdmin(row) == IF row \in {"missing", "error"} THEN "admin" ELSE row

\* getUserRole: if (error || !data) return 'user'; return data.role
getUserRole(row) == IF row \in {"missing", "error"} THEN "user" ELSE row

\* The awaited calls of a route after the body is accepted, in order; all but
\* "generate preview", computed in the process, reach a remote service.
Effects(route) ==
    IF route = "ingest"
    THEN << "asset insert", "embedding", "vector upsert" >>
    ELSE << "storage upload full", "generate preview", "storage upload preview",
            "analyze image" >>

\* What a side effect that succeeded leaves behind in the database, the vector
\* index and the storage bucket; the two model calls leave nothing.
Stored(w, effect) ==
    CASE effect = "asset insert" -> w \cup {"asset row"}
      [] effect = "vector upsert" -> w \cup {"vector"}
      [] effect = "storage upload full" -> w \cup {"full image"}
      [] effect = "storage upload preview" -> w \cup {"preview image"}
      [] effect = "storage remove full" -> w \ {"full image"}
      [] OTHER -> w

\* return NextResponse.json(..., { status })
Respond(a, status) == [a EXCEPT !.pc = "done", !.status = status]

\* The call of the next side effect of the route is issued and awaited.
Issue(a) ==
    [a EXCEPT !.effects = Append(@, Effects(a.route)[Len(@) + 1]), !.pc = "effect"]

\* POST of one of the two routes: without an authorization header 401, else up
\* to `await requireAuth` inside requireAdmin.
AdminPOST(route) ==
    /\ admin.pc \in {"idle", "done"}
    /\ \E hasAuth \in BOOLEAN :
         admin' = IF hasAuth
                  THEN [IdleAdmin EXCEPT !.route = route, !.world = admin.world, !.pc = "auth"]
                  ELSE Respond([IdleAdmin EXCEPT !.route = route, !.world = admin.world], 401)
    /\ UNCHANGED <<now, cfg, rlvars, req, started, client>>

\* requireAuth throws AuthError('Not authenticated'): the catch block answers 500.
AdminAuthFails ==
    /\ admin.pc = "auth"
    /\ admin' = Respond(admin, 500)
    /\ UNCHANGED <<now, cfg, rlvars, req, started, client>>

\* requireAuth returns the user; up to the await of the user_roles query.
AdminAuthReturns ==
    /\ admin.pc = "auth"
    /\ \E u \in Users : admin' = [admin EXCEPT !.user = u, !.pc = "role"]
    /\ UNCHANGED <<now, cfg, rlvars, req, started, client>>

\* The user_roles query returns; requireAdmin throws 'Admin access required'
\* (answered 403) unless the role is admin; up to the await of the body.
AdminRoleReturns ==
    /\ admin.pc = "role"
    /\ \E row \in RoleRows :
         LET a == [admin EXCEPT !.roleRow = row]
         IN  admin' = IF getUserRole(row) # "admin"
                      THEN Respond(a, 403)
                      ELSE [a EXCEPT !.pc = "body"]
    /\ UNCHANGED <<now, cfg, rlvars, req, started, client>>

\* request.json() / request.formData() returns: a body that fails validation is
\* answered 400; else the first side effect is issued.
AdminBodyReturns ==
    /\ admin.pc = "body"
    /\ \E valid \in BOOLEAN :
         admin' = IF valid THEN Issue(admin) ELSE Respond(admin, 400)
    /\ UNCHANGED <<now, cfg, rlvars, req, started, client>>

\* An awaited call returns: a failure is answered 500 (after the failed preview
\* upload the full image is removed first); else the next call is issued, and
\* after the last one the request is answered 200 (500 when the analysis does
\* not pass GeneratedAssetDataSchema, which is a failure of that call here).
AdminEffectReturns ==
    /\ admin.pc = "effect"
    /\ \E ok \in BOOLEAN :
         LET effect == admin.effects[Len(admin.effects)]
             a == [admin EXCEPT !.world = Stored(@, effect)]
         IN  admin' =
                IF ~ok
                THEN Respond(IF effect = "storage upload preview"
                             THEN [admin EXCEPT !.effects = Append(@, "storage remove full"),
                                                !.world = Stored(@, "storage remove full")]
                             ELSE admin, 500)
                ELSE IF Len(admin.effects) < Len(Effects(admin.route))
                     THEN Issue(a)
                     ELSE Respond(a, 200)
    /\ UNCHANGED <<now, cfg, rlvars, req, started, client>>

(***************************************************************************)
(* app/page.tsx, handleSubmit: the chat page sends the message and reads   *)
(* the response stream.  The response text is a sequence of tokens: the    *)
(* frame `data: ${JSON.stringify(event)}\n\n` of the k-th event is the     *)
(* prefix "data: ", the two halves of the event's JSON text, and two       *)
(* newline characters.                                                     *)
(***************************************************************************)
Tok(t, k) == [t |-> t, k |-> k]
Newline == Tok("nl", 0)

\* send: `data: ${JSON.stringify(event)}\n\n`
Frame(k) == << Tok("data", k), Tok("json1", k), Tok("json2", k), Newline, Newline >>

\* The frames of events 1..n, in order.
RECURSIVE Encode(_)
Encode(n) == IF n = 0 THEN <<>> ELSE Encode(n - 1) \o Frame(n)

\* chunk.split('\n\n'): the pieces between non-overlapping pairs of newlines,
\* found from the left.
RECURSIVE SplitFrom(_, _, _, _)
SplitFrom(chunk, i, piece, pieces) ==
    IF i > Len(chunk) THEN Append(pieces, piece)
    ELSE IF i < Len(chunk) /\ chunk[i] = Newline /\ chunk[i + 1] = Newline
         THEN SplitFrom(chunk, i + 2, <<>>, Append(pieces, piece))
         ELSE SplitFrom(chunk, i + 1, Append(piece, chunk[i]), pieces)
Split(chunk) == SplitFrom(chunk, 1, <<>>, <<>>)

\* line.trim(): without the white space at both ends.
RECURSIVE Trim(_)
Trim(line) ==
    IF line = <<>> THEN line
    ELSE IF Head(line) = Newline THEN Trim(Tail(line))
    ELSE IF line[Len(line)] = Newline THEN Trim(SubSeq(line, 1, Len(line) - 1))
    ELSE line

\* line.startsWith('data: ')
StartsWithData(line) == line # <<>> /\ Head(line).t = "data"

\* JSON.parse(text): the number of the event whose whole JSON text, with white
\* space around it at most, the text is; 0 when it throws a SyntaxError.
JSONParse(text) ==
    LET s == Trim(text)
    IN  IF Len(s) = 2 /\ s[1].t = "json1" /\ s[2].t = "json2" /\ s[1].k = s[2].k
        THEN s[1].k
        ELSE 0

\* The body of `for (const line of lines)` for one line.
HandleLine(c, line) ==
    IF Trim(line) = <<>> \/ ~StartsWithData(line) THEN c
    ELSE LET k == JSONParse(Tail(line))
         IN  IF k = 0
             THEN [c EXCEPT !.console = Append(@, "SyntaxError")]
             ELSE LET data == c.sent[k]
                      c1 == [c EXCEPT !.handled = Append(@, k)]
                  IN  CASE data.type = "status" ->
                             [c1 EXCEPT !.statusMessage = data.text]
                        [] data.type = "result" ->
                             [c1 EXCEPT !.assistantMessage = data.text,
                                        !.assets = data.assets]
                        [] OTHER ->
                             \* throw new Error(data.data.error), caught by the
                             \* catch (parseError) around it
                             [c1 EXCEPT !.console = Append(@, data.text)]

RECURSIVE HandleLines(_, _, _)
HandleLines(c, lines, i) ==
    IF i > Len(lines) THEN c ELSE HandleLines(HandleLine(c, lines[i]), lines, i + 1)

\* The responses of the chat route: status events, then one result or error.
ServerStreams ==
    { << StatusEvent("Analyzing your query...", 0), StatusEvent("Generating response...", 0),
         ResultEvent([assistant_message |-> "Found.", assets |-> <<Asset(FabricatedId)>>]) >>,
      << StatusEvent("Analyzing your query...", 0),
         ResultEvent([assistant_message |-> "Sorry, nothing matches.", assets |-> <<>>]) >>,
      << StatusEvent("Analyzing your query...", 0),
         ErrorEvent("Failed to generate embedding") >>,
      << ErrorEvent("Unauthorized") >> }

\* finally { setIsLoading(false); setIsThinking(false); setStatusMessage('') }
Finally(c) == [c EXCEPT !.pc = "done", !.statusMessage = ""]

\* handleSubmit up to the await of fetch: without a session the page goes to
\* /login; else the user's message is displayed and the request sent.
ClientSubmit ==
    /\ client.pc = "idle"
    /\ \E session \in BOOLEAN :
         client' =
            IF ~session THEN Finally(client)
            ELSE [client EXCEPT
                    !.pc = "fetch",
                    !.statusMessage = "Sending message...",
                    !.messages = Append(@, [role |-> "user", content |-> "q1", assets |-> <<>>])]
    /\ UNCHANGED <<now, cfg, rlvars, req, started, admin>>

\* fetch rejects or the response is not ok: alert(error.message).
ClientFetchFails ==
    /\ client.pc = "fetch"
    /\ client' = Finally([client EXCEPT !.alerted = "Failed to send message"])
    /\ UNCHANGED <<now, cfg, rlvars, req, started, admin>>

\* fetch returns the response, whose body the server writes; up to the first
\* reader.read().
ClientFetchReturns ==
    /\ client.pc = "fetch"
    /\ \E s \in ServerStreams :
         client' = [client EXCEPT !.pc = "reading", !.sent = s, !.wire = Encode(Len(s))]
    /\ UNCHANGED <<now, cfg, rlvars, req, started, admin>>

\* reader.read() returns a chunk, which is any part of the response the
\* transport delivers next; its lines are handled.
ClientRead ==
    /\ client.pc = "reading"
    /\ \E n \in 1..Len(client.wire) :
         LET chunk == SubSeq(client.wire, 1, n)
             c == [client EXCEPT !.wire = SubSeq(@, n + 1, Len(@))]
         IN  client' = HandleLines(c, Split(chunk), 1)
    /\ UNCHANGED <<now, cfg, rlvars, req, started, admin>>

\* reader.read() returns done: the assistant message is added to the
\* conversation.
ClientReadDone ==
    /\ client.pc = "reading"
    /\ client.wire = <<>>
    /\ client' = Finally([client EXCEPT
                    !.messages = Append(@, [role |-> "assistant",
                                            content |-> client.assistantMessage,
                                            assets |-> client.assets])])
    /\ UNCHANGED <<now, cfg, rlvars, req, started, admin>>

\* reader.read() rejects: alert(error.message).
ClientReadFails ==
    /\ client.pc = "reading"
    /\ client' = Finally([client EXCEPT !.alerted = "network error"])
    /\ UNCHANGED <<now, cfg, rlvars, req, started, admin>>

(***************************************************************************)
(* Specifications.                                                         *)
(***************************************************************************)
InitRL(configs) ==
    /\ now = 0
    /\ store = [u \in Users |-> NoEntry]
    /\ cfg \in configs
    /\ last = NoCall
    /\ nth = [u \in Users |-> 0]
    /\ admitted = [u \in Users |-> 0]
    /\ probe = NoProbe
    /\ req = [s \in Slots |-> IdleReq]
    /\ started = 0
    /\ admin = IdleAdmin
    /\ client = IdleClient

\* The limiter alone, under the default and the small configuration.
\* Time runs until the first window has expired.
Horizon == cfg.windowMs + TickMs
NextRL == Tick(Horizon) \/ \E id \in Users : Check(id)
SpecRL == InitRL({DEFAULT_RATE_LIMIT, SMALL_RATE_LIMIT}) /\ [][NextRL]_vars

\* The limiter with the interval observer, under the small configuration.
NextWindow == Tick(Horizon) \/ (\E id \in Users : Check(id)) \/ (\E id \in Users : StartProbe(id))
SpecWindow == InitRL({SMALL_RATE_LIMIT}) /\ [][NextWindow]_vars

\* Calls an identity has already made in its window when the chat model starts.
PriorCalls == {0, DEFAULT_RATE_LIMIT.maxRequests - 1}

\* The chat route: the store is empty, or u1 has made its earlier calls of the
\* window at time 0 (all of them admitted).
InitChat(priors) ==
    /\ now = 0
    /\ cfg = DEFAULT_RATE_LIMIT
    /\ \E k \in priors :
         /\ store = [u \in Users |->
                       IF u = "u1" /\ k > 0
                       THEN [present |-> TRUE, count |-> k, resetTime |-> cfg.windowMs]
                       ELSE NoEntry]
         /\ nth = [u \in Users |-> IF u = "u1" THEN k ELSE 0]
         /\ admitted = [u \in Users |-> IF u = "u1" THEN k ELSE 0]
    /\ last = NoCall
    /\ probe = NoProbe
    /\ req = [s \in Slots |-> IdleReq]
    /\ started = 0
    /\ admin = IdleAdmin
    /\ client = IdleClient

\* One request's next stretch of code, its inputs drawn from all the modelled
\* inputs or from the well-formed ones only.
Step(s, all) ==
    \/ POST(s)
    \/ AuthFails(s)
    \/ AuthReturns(s)
    \/ JsonReturns(s, all)
    \/ SaveUserReturns(s)
    \/ EmbedFails(s)
    \/ EmbedReturns(s)
    \/ CountReturns(s, all)
    \/ QueryFails(s)
    \/ QueryReturns(s, all)
    \/ GenerateReturns(s, all)
    \/ SaveAssistantReturns(s)
    \/ Disconnect(s)

\* The chat route, one request after the other, on all the modelled inputs.
Init == InitChat(PriorCalls)
Next == Tick(Horizon) \/ Step("r1", TRUE)
Spec == Init /\ [][Next]_vars

\* The pipeline of processRequest alone: one request after the other on all the
\* modelled inputs, the clock standing still.
NextPipeline == Step("r1", TRUE)
SpecPipeline == InitChat({0}) /\ [][NextPipeline]_vars

\* The re-ranking alone, on lists of matches: a base list and the matches added
\* to it one at a time.
InitRank ==
    /\ now = 0
    /\ cfg = DEFAULT_RATE_LIMIT
    /\ store = [u \in Users |-> NoEntry]
    /\ nth = [u \in Users |-> 0]
    /\ admitted = [u \in Users |-> 0]
    /\ last = NoCall
    /\ probe = NoProbe
    /\ started = 0
    /\ admin = IdleAdmin
    /\ client = IdleClient
    /\ \E base \in BaseLists :
         req = [s \in Slots |-> IF s = "r1" THEN [IdleReq EXCEPT !.matches = base]
                                ELSE IdleReq]

\* The matches added to the base list so far.
Extras(matches) ==
    IF Len(matches) >= TopN - 1 THEN Len(matches) - (TopN - 1) ELSE Len(matches)

\* The index's answer holds one more match.
AddMatch(s) ==
    /\ req[s].pc = "idle"
    /\ Extras(req[s].matches) < MaxExtra
    /\ \E sc \in RankScores, d \in RankDates :
         req' = [req EXCEPT ![s].matches =
                    Append(@, Match(IdNames[Len(@) + 1], sc, d.hasDate, d.daysAgo))]
    /\ UNCHANGED <<now, cfg, rlvars, started, admin, client>>

\* The re-rank of the matches: map, sort, slice.
Rerank(s) ==
    /\ req[s].pc = "idle"
    /\ req' = [req EXCEPT ![s].scored = Candidates(req[s].matches),
                          ![s].top = TopCandidates(req[s].matches),
                          ![s].pc = "ranked"]
    /\ UNCHANGED <<now, cfg, rlvars, started, admin, client>>

NextRank == AddMatch("r1") \/ Rerank("r1")
SpecRank == InitRank /\ [][NextRank]_vars

\* An awaited call of the request of slot s returns or fails.
Returns(s) ==
    \/ AuthFails(s)
    \/ AuthReturns(s)
    \/ JsonReturns(s, TRUE)
    \/ SaveUserReturns(s)
    \/ EmbedFails(s)
    \/ EmbedReturns(s)
    \/ CountReturns(s, TRUE)
    \/ QueryFails(s)
    \/ QueryReturns(s, TRUE)
    \/ GenerateReturns(s, TRUE)
    \/ SaveAssistantReturns(s)

\* The pipeline when every awaited call eventually returns or fails.
SpecLive == InitChat({0}) /\ [][NextPipeline]_vars /\ WF_vars(Returns("r1"))

\* The admin endpoints, one request after the other.
NextAdmin ==
    \/ \E route \in AdminRoutes : AdminPOST(route)
    \/ AdminAuthFails
    \/ AdminAuthReturns
    \/ AdminRoleReturns
    \/ AdminBodyReturns
    \/ AdminEffectReturns
SpecAdmin == InitChat({0}) /\ [][NextAdmin]_vars

\* The chat page sending one message.
NextClient ==
    \/ ClientSubmit
    \/ ClientFetchFails
    \/ ClientFetchReturns
    \/ ClientRead
    \/ ClientReadDone
    \/ ClientReadFails
SpecClient == InitChat({0}) /\ [][NextClient]_vars

\* The chat route with requests in flight at once, on well-formed inputs.
NextConc == Tick(TickMs) \/ \E s \in Slots : Step(s, FALSE)
SpecConc == InitChat({0}) /\ [][NextConc]_vars

(***************************************************************************)
(* The rate limiter's claims.                                              *)
(***************************************************************************)

\* C4: with the default limit of 20 per window, the 1st..20th call of an
\* identity in a window passes the gate and the 21st and later are rejected.
C4_FirstTwentyPass ==
    (last.valid /\ cfg = DEFAULT_RATE_LIMIT) =>
        /\ (last.nth <= DEFAULT_RATE_LIMIT.maxRequests => ~last.limited)
        /\ (last.nth > DEFAULT_RATE_LIMIT.maxRequests => last.limited)

\* C5 (as claimed): in every interval of length windowMs, wherever it starts,
\* at most maxRequests calls of one identity are admitted.
C5_SlidingInterval == probe.on => probe.n <= cfg.maxRequests

\* C5 (amended): while one stored window of an identity is current (from its
\* creation up to its resetTime), at most maxRequests calls are admitted.
C5_PerStoredWindow == \A id \in Users : admitted[id] <= cfg.maxRequests

\* C5 witness: a window that has admitted calls and then rejected one.
C5_Witness ==
    /\ last.valid /\ last.limited /\ cfg = SMALL_RATE_LIMIT
    /\ admitted[last.id] = cfg.maxRequests - 1
    /\ last.nth > cfg.maxRequests

\* C6 (as claimed): a call at now >= resetTime, now == resetTime included,
\* replaces the window: resetTime = now + windowMs and the call counts as 1.
C6_ResetAtOrAfter ==
    (last.valid /\ last.before.present /\ last.at >= last.before.resetTime) =>
        /\ last.after.resetTime = last.at + cfg.windowMs
        /\ last.after.count = 1

\* C6 (amended): a call at now > resetTime replaces the window (resetTime =
\* now + windowMs, count 1, nothing carried over); a call at now == resetTime
\* still belongs to the old window, whose count it increments.
C6_ResetStrictlyAfter ==
    (last.valid /\ last.before.present) =>
        /\ last.at > last.before.resetTime =>
              /\ last.after.resetTime = last.at + cfg.windowMs
              /\ last.after.count = 1
        /\ last.at = last.before.resetTime =>
              /\ last.after.resetTime = last.before.resetTime
              /\ last.after.count = last.before.count + 1

\* C6 witness: both cases have happened to windows holding several calls.
C6_Witness ==
    /\ last.valid /\ last.before.present /\ last.before.count > 1
    /\ last.at > last.before.resetTime

C6_WitnessBoundary ==
    /\ last.valid /\ last.before.present /\ last.at = last.before.resetTime

\* C7: the first call after resetAt returns remaining = limit - 1 and a
\* resetAt = now + windowMs in the future and is admitted, whatever the
\* expired window had counted.
C7_FirstCallAfterReset ==
    (last.valid /\ last.before.present /\ last.at > last.before.resetTime) =>
        /\ last.info.limit = cfg.maxRequests
        /\ last.info.remaining = last.info.limit - 1
        /\ last.info.reset = last.at + cfg.windowMs
        /\ last.info.reset > last.at
        /\ ~last.limited

\* C7 witness: the expired window had counted rejected calls too.
C7_Witness ==
    /\ last.valid /\ last.before.present /\ last.at > last.before.resetTime
    /\ last.before.count > cfg.maxRequests

\* C8: within one window a call adds exactly 1 to the count and leaves
\* resetTime alone; every call returns remaining = max(0, limit - count),
\* never negative, and 0 once count >= limit.
C8_CountAndRemaining ==
    last.valid =>
        /\ (last.before.present /\ last.at <= last.before.resetTime) =>
              /\ last.after.count = last.before.count + 1
              /\ last.after.resetTime = last.before.resetTime
        /\ last.info.remaining >= 0
        /\ (last.after.count < last.info.limit =>
              last.info.remaining = last.info.limit - last.after.count)
        /\ (last.after.count >= last.info.limit => last.info.remaining = 0)

\* C8 witness: a call in a window whose count has passed the limit.
C8_Witness ==
    /\ last.valid /\ last.before.present /\ last.at <= last.before.resetTime
    /\ last.after.count > last.info.limit

(***************************************************************************)
(* The chat route's claims.                                                *)
(***************************************************************************)
IsTerminal(ev) == ev.type \in {"result", "error"}
Called(r, call) == \E i \in 1..Len(r.log) : r.log[i] = Entry("call", call)
StatusSent(r) == \E i \in 1..Len(r.events) : r.events[i].type = "status"

\* The stages after the rate-limit gate.
Downstream ==
    {"request.json", "insert user", "generateEmbedding", "count assets", "queryVectors",
     "generateChatResponse", "insert assistant"}

\* C1: the events written to a request's stream are status events followed by
\* one terminal event (result or error), written last; the stream is closed
\* in the same stretch of code, and no send or close is tried after that.  A
\* request whose caller has not disconnected ends with exactly one terminal
\* event.
C1_StatusThenOneTerminal ==
    \A s \in Slots :
        LET r == req[s]
            n == Len(r.events)
        IN  /\ \A i \in 1..(n - 1) : r.events[i].type = "status"
            /\ (n > 0 /\ IsTerminal(r.events[n])) <=> r.strm = "closed"
            /\ r.strm = "closed" =>
                  /\ r.pc = "done"
                  /\ Len(r.log) >= 2
                  /\ r.log[Len(r.log)] = Entry("close", "")
                  /\ r.log[Len(r.log) - 1] = Entry(r.events[n].type, r.events[n].text)
            /\ r.late = 0
            /\ (r.pc = "done" /\ r.strm # "cancelled") => r.strm = "closed"

\* C1 witness: a request that wrote its five status events, then the result,
\* and closed.
C1_Witness ==
    \E s \in Slots :
        /\ req[s].pc = "done" /\ req[s].strm = "closed"
        /\ Len(req[s].events) = 6
        /\ req[s].events[6].type = "result"

\* C2: once the caller has disconnected, no send or close on the stream throws
\* and the request ends without an unhandled rejection.
C2_WritesSuppressedAfterDisconnect ==
    \A s \in Slots : req[s].faults = 0 /\ ~req[s].unhandled

\* C3: a request whose rate-limit check returned remaining <= 0 emits no status
\* event, invokes no stage after the gate, and (its caller still connected)
\* ends with the one error event that carries the window's reset time.
C3_RateLimitedStopsAtGate ==
    LET r == req["r1"]
    IN  (r.uid # "" /\ last.valid /\ last.id = r.uid /\ last.info.remaining <= 0) =>
            /\ ~StatusSent(r)
            /\ \A c \in Downstream : ~Called(r, c)
            /\ r.pc = "done"
            /\ last.info.reset = store[r.uid].resetTime
            /\ r.strm # "cancelled" =>
                  /\ r.strm = "closed"
                  /\ r.events = << [type |-> "error", text |-> "Rate limit exceeded",
                                    n |-> 0, reset |-> ISO(store[r.uid].resetTime),
                                    assets |-> <<>>] >>

\* C3 witness: a rejected request, answered and closed.
C3_Witness ==
    LET r == req["r1"]
    IN  /\ r.uid # "" /\ last.valid /\ last.id = r.uid /\ last.info.remaining <= 0
        /\ r.strm = "closed" /\ Len(r.events) = 1

\* C9: requests of one identity that interleave at their awaits lose no
\* increment: after N checks in a window its count is N, and the N-th check saw
\* count N.
C9_NoLostIncrement ==
    /\ \A id \in Users : store[id].count = nth[id]
    /\ last.valid => last.after.count = last.nth

\* C9 witness: two requests of one identity are in flight, both past the gate.
C9_Witness ==
    /\ req["r1"].pc \notin {"idle", "auth", "done"}
    /\ req["r2"].pc \notin {"idle", "auth", "done"}
    /\ req["r1"].uid = req["r2"].uid
    /\ store[req["r1"].uid].count = 2

\* C10: every item of a result event carries the identifier of one of the (at
\* most 10) candidates given to the response generator.
C10_ItemsAmongCandidates ==
    \A s \in Slots :
        \A i \in 1..Len(req[s].events) :
            req[s].events[i].type = "result" =>
                /\ Len(req[s].top) <= TopN
                /\ Ids(req[s].events[i].assets) \subseteq Ids(req[s].top)

(***************************************************************************)
(* The pipeline's claims: failures and the order of the stages.            *)
(***************************************************************************)
HasEvent(r, type) == \E i \in 1..Len(r.events) : r.events[i].type = type
LastEvent(r) == r.events[Len(r.events)]
\* The place of the log entry e in the log of r, 0 when there is none (a stage
\* is entered once in a request).
RECURSIVE PosFrom(_, _, _)
PosFrom(log, e, i) ==
    IF i > Len(log) THEN 0 ELSE IF log[i] = e THEN i ELSE PosFrom(log, e, i + 1)
Pos(r, e) == PosFrom(r.log, e, 1)
Times(r, e) == Cardinality({i \in 1..Len(r.log) : r.log[i] = e})
\* The request answered its caller, who was still connected.
Answered(r) == r.pc = "done" /\ r.strm = "closed"
Validated(out) == out.kind = "json" /\ SchemaOk(out)

\* C11: when the generator call fails or its data fails the schema, the request
\* ends with an error event, emits no result and issues no assistant-turn
\* append; an assistant-turn append is issued only after validated data.
C11_GeneratorFailureEndsInError ==
    \A s \in Slots :
        LET r == req[s]
        IN  /\ (r.out.kind # "none" /\ ~Validated(r.out)) =>
                  /\ r.pc = "done"
                  /\ ~HasEvent(r, "result")
                  /\ ~Called(r, "insert assistant")
                  /\ r.strm # "cancelled" =>
                        /\ r.strm = "closed"
                        /\ LastEvent(r) = ErrorEvent("Failed to generate chat response")
            /\ Called(r, "insert assistant") => Validated(r.out)

\* C11 witness: the model answered JSON that fails the schema, and the request
\* was answered with the error.
C11_Witness ==
    \E s \in Slots :
        /\ Answered(req[s])
        /\ req[s].out.kind = "json" /\ ~SchemaOk(req[s].out)
        /\ LastEvent(req[s]).type = "error"

\* The remote calls of the pipeline other than the store's appends, in order.
RemoteStages == <<"generateEmbedding", "count assets", "queryVectors", "generateChatResponse">>

\* C12: when the embedding, the eligible-asset count, the index query or the
\* generation fails, no later stage is invoked, the failed call is issued once
\* only, and the terminal event is error.
C12_RemoteFailureStops ==
    \A s \in Slots :
        LET r == req[s]
        IN  \A k \in 1..Len(RemoteStages) :
                RemoteStages[k] \in r.failed =>
                    /\ \A j \in (k + 1)..Len(RemoteStages) : ~Called(r, RemoteStages[j])
                    /\ ~Called(r, "insert assistant")
                    /\ Times(r, Entry("call", RemoteStages[k])) = 1
                    /\ ~HasEvent(r, "result")
                    /\ r.strm # "cancelled" => (Answered(r) /\ LastEvent(r).type = "error")

StoreCalls == {"insert user", "insert assistant"}

\* C13: a failed append of the user turn or the assistant turn does not change
\* the terminal event: when every other stage succeeded the request ends with
\* the result event carrying the generator's message and items.
C13_StoreFailureAbsorbed ==
    \A s \in Slots :
        LET r == req[s]
        IN  (Answered(r) /\ Called(r, "insert user") /\ r.failed \subseteq StoreCalls) =>
                /\ LastEvent(r).type = "result"
                /\ LastEvent(r).text = r.out.assistant_message
                /\ LastEvent(r).assets = r.out.assets

\* C13 witness: both appends failed and the result was sent.
C13_Witness ==
    \E s \in Slots :
        /\ Answered(req[s]) /\ req[s].failed = StoreCalls
        /\ LastEvent(req[s]).type = "result"

\* The stages that follow the user turn's append.
AfterUserTurn ==
    { Entry("call", "generateEmbedding"), Entry("call", "count assets"),
      Entry("call", "queryVectors"), Entry("stage", "rank"),
      Entry("call", "generateChatResponse"), Entry("call", "insert assistant") }

\* C14: the append of the user turn is issued before the embedder and every
\* later stage, so it has been issued in every run in which the embedding, the
\* query or the generation failed.
C14_UserTurnAppendedFirst ==
    \A s \in Slots :
        LET r == req[s]
            p == Pos(r, Entry("call", "insert user"))
        IN  /\ \A e \in AfterUserTurn : Pos(r, e) > 0 => (0 < p /\ p < Pos(r, e))
            /\ r.failed \ StoreCalls # {} => p > 0

\* C14 witness: the embedding failed after the user turn's append was issued.
C14_Witness ==
    \E s \in Slots :
        /\ Answered(req[s]) /\ "generateEmbedding" \in req[s].failed
        /\ Called(req[s], "insert user")
        /\ LastEvent(req[s]) = ErrorEvent("Failed to generate embedding")

\* C15: when a result event is emitted, the assistant turn's append has already
\* been issued.
C15_AppendIssuedBeforeResult ==
    \A s \in Slots :
        \A i \in 1..Len(req[s].log) :
            req[s].log[i].k = "result" =>
                \E j \in 1..(i - 1) : req[s].log[j] = Entry("call", "insert assistant")

\* C15 witness: a result was emitted although the append, issued before it,
\* failed.
C15_Witness ==
    \E s \in Slots :
        /\ HasEvent(req[s], "result")
        /\ "insert assistant" \in req[s].failed

\* The calls that follow the reading of the body.
AfterBody ==
    {"insert user", "generateEmbedding", "count assets", "queryVectors",
     "generateChatResponse", "insert assistant"}

\* C16: a request whose messages hold no turn of role user is answered with the
\* error 'No user message found' and issues no store append, embedding, count,
\* index query or generator call, and no status event.
C16_NoUserTurnRejected ==
    \A s \in Slots :
        LET r == req[s]
        IN  (r.parsed /\ \A i \in 1..Len(r.given) : r.given[i].role # "user") =>
                /\ r.pc = "done"
                /\ \A c \in AfterBody : ~Called(r, c)
                /\ ~StatusSent(r)
                /\ r.strm # "cancelled" =>
                      /\ r.strm = "closed"
                      /\ r.events = << ErrorEvent("No user message found") >>

\* C16 witness: a body with an assistant turn only was rejected.
C16_Witness ==
    \E s \in Slots :
        /\ Answered(req[s]) /\ req[s].parsed
        /\ Len(req[s].given) = 1 /\ req[s].given[1].role = "assistant"

\* The five stages in the order they start.
Stages ==
    << Entry("call", "generateEmbedding"), Entry("call", "count assets"),
       Entry("call", "queryVectors"), Entry("stage", "rank"),
       Entry("call", "generateChatResponse") >>

StatusesBefore(r, p) == Cardinality({i \in 1..(p - 1) : r.log[i].k = "status"})

\* The log entry written just before the first entry e.
Before(r, e) == r.log[Pos(r, e) - 1]

\* C17 (as claimed): each of the five stages has its own status event, emitted
\* before the stage is dispatched: when the k-th stage starts, k status events
\* have been emitted.
C17_StatusPerStage ==
    \A s \in Slots :
        \A k \in 1..Len(Stages) :
            Pos(req[s], Stages[k]) > 0 => StatusesBefore(req[s], Pos(req[s], Stages[k])) >= k

\* C17 (amended): the embedding, the index query, the ranking and the
\* generation each have their own status event, emitted just before the stage
\* is dispatched; the count of eligible assets has none: it is dispatched right
\* after the embedding returns, and its outcome is the X of the index query's
\* status.
C17_StatusBeforeStage ==
    \A s \in Slots :
        LET r == req[s]
        IN  /\ Pos(r, Stages[1]) > 0 =>
                  Before(r, Stages[1]) = Entry("status", "Analyzing your query...")
            /\ Pos(r, Stages[2]) > 0 =>
                  /\ Before(r, Stages[2]) = Stages[1]
                  /\ StatusesBefore(r, Pos(r, Stages[2])) = 1
            /\ Pos(r, Stages[3]) > 0 =>
                  Before(r, Stages[3]) = Entry("status", "Searching through X assets...")
            /\ Pos(r, Stages[4]) > 0 =>
                  Before(r, Stages[4]) = Entry("status", "Ranking by relevance and recency...")
            /\ Pos(r, Stages[5]) > 0 =>
                  Before(r, Stages[5]) = Entry("status", "Generating response...")
            /\ \A k \in 2..Len(Stages) :
                  Pos(r, Stages[k]) > 0 =>
                      (0 < Pos(r, Stages[k - 1]) /\ Pos(r, Stages[k - 1]) < Pos(r, Stages[k]))

\* C17 witness: all five stages were dispatched.
C17_Witness ==
    \E s \in Slots :
        /\ Pos(req[s], Stages[5]) > 0
        /\ StatusesBefore(req[s], Pos(req[s], Stages[5])) = 5

\* The status labels of a run, in order.
Labels ==
    << "Analyzing your query...", "Searching through X assets...",
       "Found X potential matches", "Ranking by relevance and recency...",
       "Generating response..." >>

IsStatus(ev) == ev.type = "status"
StatusEvents(r) == SelectSeq(r.events, IsStatus)
IsPrefix(a, b) == Len(a) <= Len(b) /\ \A i \in 1..Len(a) : a[i] = b[i]

\* C18: a run that ends with a result has emitted exactly the five status
\* events, once each and in the documented order; any other run has emitted a
\* prefix of that sequence.
C18_FiveStatusesInOrder ==
    \A s \in Slots :
        LET r == req[s]
            st == StatusEvents(r)
        IN  /\ IsPrefix([i \in 1..Len(st) |-> st[i].text], Labels)
            /\ HasEvent(r, "result") => Len(st) = Len(Labels)
            /\ Len(st) >= 3 => st[3].n = Len(r.matches)

\* C18 witness: a run with a result for more matches than are passed on.
C18_Witness ==
    \E s \in Slots :
        /\ HasEvent(req[s], "result")
        /\ Len(req[s].matches) > TopN
        /\ Len(StatusEvents(req[s])) = 5

\* C19: when the index returns no match and the other calls succeed, the
\* ranking yields no candidate, the generator is called, and the request ends
\* with a result event with zero items and a non-empty message.
C19_EmptyMatchesGiveEmptyResult ==
    \A s \in Slots :
        LET r == req[s]
        IN  (Answered(r) /\ Pos(r, Entry("stage", "rank")) > 0 /\ r.matches = <<>>
               /\ r.failed \subseteq StoreCalls) =>
                /\ r.top = <<>>
                /\ Called(r, "generateChatResponse")
                /\ LastEvent(r).type = "result"
                /\ LastEvent(r).assets = <<>>
                /\ LastEvent(r).text # ""

\* C20: a candidate without an acquisition timestamp is left out of the ranked
\* list given to the response generator.
C20_UndatedCandidateExcluded ==
    \A s \in Slots :
        LET r == req[s]
        IN  \A i \in 1..Len(r.matches) :
                ~r.matches[i].hasDate => r.matches[i].id \notin Ids(r.top)

(***************************************************************************)
(* The re-ranking's claims.  Scores are integers: similarity in units of   *)
(* 1 / ScoreOne, recencyScore in units of 1 / THREE_YEARS, combinedScore   *)
(* in units of 1 / CombinedOne.                                            *)
(***************************************************************************)
CombinedOne == ScoreOne * THREE_YEARS * AlphaDen

\* C21: the candidates handed to the response generator are in non-increasing
\* order of combinedScore, and combinedScore is 0.8 * similarity + 0.2 *
\* recencyScore.
C21_NonIncreasingCombinedScore ==
    \A s \in Slots :
        LET top == req[s].top
        IN  /\ \A i \in 1..(Len(top) - 1) : top[i].combinedScore >= top[i + 1].combinedScore
            /\ \A i \in 1..Len(top) :
                  top[i].combinedScore =
                      AlphaNum * THREE_YEARS * top[i].similarity
                      + (AlphaDen - AlphaNum) * ScoreOne * top[i].recencyScore

\* C21 witness: a list of more than ten matches that the index returned in
\* another order than the order of combinedScore.
C21_Witness ==
    \E s \in Slots :
        /\ req[s].pc = "ranked" /\ Len(req[s].scored) > TopN
        /\ \E i \in 1..(Len(req[s].scored) - 1) :
              req[s].scored[i].combinedScore < req[s].scored[i + 1].combinedScore
        /\ req[s].top[1].combinedScore > req[s].top[TopN].combinedScore

\* C22: every candidate's recencyScore lies in [0, 1], a candidate with a
\* purchase date after now included, and so does its combinedScore when its
\* similarity does.
C22_RecencyWithinUnitInterval ==
    \A s \in Slots :
        \A i \in 1..Len(req[s].scored) :
            LET c == req[s].scored[i]
            IN  /\ 0 <= c.recencyScore /\ c.recencyScore <= THREE_YEARS
                /\ (0 <= c.similarity /\ c.similarity <= ScoreOne) =>
                      (0 <= c.combinedScore /\ c.combinedScore <= CombinedOne)

IndexOf(cs, id) == CHOOSE p \in 1..Len(cs) : cs[p].id = id

\* Candidate a is ranked ahead of candidate b: a higher combinedScore, or the
\* same and an earlier place in the index's answer.
Ahead(cs, a, b) ==
    \/ a.combinedScore > b.combinedScore
    \/ a.combinedScore = b.combinedScore /\ IndexOf(cs, a.id) < IndexOf(cs, b.id)

\* C24: the list handed to the response generator is the first min(10, n)
\* candidates of the stable descending sort by combinedScore: equal scores keep
\* the index's order, and every candidate left out ranks behind the last one
\* passed on.
C24_StableSortTopTen ==
    \A s \in Slots :
        LET cs == req[s].scored
            top == req[s].top
            k == Len(top)
        IN  /\ k = (IF Len(cs) < TopN THEN Len(cs) ELSE TopN)
            /\ \A i \in 1..k : \E p \in 1..Len(cs) : cs[p] = top[i]
            /\ \A i \in 1..(k - 1) : Ahead(cs, top[i], top[i + 1])
            /\ \A p \in 1..Len(cs) : cs[p].id \notin Ids(top) => Ahead(cs, top[k], cs[p])

\* C24 witness: more than ten candidates, two of equal score among those passed
\* on, and one left out with the score of the tenth.
C24_Witness ==
    \E s \in Slots :
        LET cs == req[s].scored
            top == req[s].top
        IN  /\ req[s].pc = "ranked" /\ Len(cs) > TopN
            /\ \E i \in 1..(TopN - 1) : top[i].combinedScore = top[i + 1].combinedScore
            /\ \E p \in 1..Len(cs) :
                  cs[p].id \notin Ids(top) /\ cs[p].combinedScore = top[TopN].combinedScore

\* The content of the last message of role user.
LastUserContent(messages) ==
    LET last_i == CHOOSE i \in 1..Len(messages) :
                     /\ messages[i].role = "user"
                     /\ \A j \in (i + 1)..Len(messages) : messages[j].role # "user"
    IN  messages[last_i].content

\* C25: the text stored as the user turn, embedded and passed to the response
\* generator is the content of the last message of role user, also when the
\* list ends with an assistant turn.
C25_LastUserTurnUsed ==
    \A s \in Slots :
        LET r == req[s]
        IN  /\ Called(r, "insert user") => r.storedUser = LastUserContent(r.given)
            /\ Called(r, "generateEmbedding") => r.embedded = LastUserContent(r.given)
            /\ Called(r, "generateChatResponse") => r.prompted = LastUserContent(r.given)

\* C25 witness: a list with two user turns that ends with an assistant turn
\* went through the three calls.
C25_Witness ==
    \E s \in Slots :
        LET r == req[s]
        IN  /\ Len(r.given) = 4 /\ r.given[4].role = "assistant"
            /\ r.given[1].role = "user" /\ r.given[1].content # r.given[3].content
            /\ Called(r, "generateChatResponse")
            /\ r.storedUser = "q2" /\ r.embedded = "q2" /\ r.prompted = "q2"

(***************************************************************************)
(* The chat route's effect on the rate-limit store.                        *)
(***************************************************************************)
\* The step in which the request of slot s passes requireAuth as identity u.
Authenticates(s, u) == req[s].pc = "auth" /\ req'[s].pc # "auth" /\ req'[s].uid = u

\* C29 (as claimed): a chat request changes the store only by adding 1 to the
\* count of the caller's entry, no other entry changes, and a request is
\* counted when and only when it is authenticated.
C29_StoreOnlyIncremented ==
    [][\A u \in Users :
          /\ store'[u] # store[u] <=> \E s \in Slots : Authenticates(s, u)
          /\ store'[u] # store[u] => store'[u].count = store[u].count + 1]_vars

\* C29 (amended): a request is counted when and only when it is authenticated,
\* once, in the caller's entry only: the count of the caller's current window
\* grows by 1 and its resetTime stays, and a caller without a window, or with an
\* expired one, gets a new window with count 1.
C29_StoreFrame ==
    [][\A u \in Users :
          /\ store'[u] # store[u] <=> \E s \in Slots : Authenticates(s, u)
          /\ store'[u] # store[u] =>
                IF store[u].present /\ store[u].resetTime >= now
                THEN /\ store'[u].count = store[u].count + 1
                     /\ store'[u].resetTime = store[u].resetTime
                ELSE /\ store'[u].count = 1
                     /\ store'[u].resetTime = now + cfg.windowMs]_vars

\* C29 witness: a request was counted in a window created in place of an
\* expired one, and then rejected for its body.
C29_Witness ==
    /\ last.valid /\ last.before.present /\ last.at > last.before.resetTime
    /\ req["r1"].uid = last.id /\ req["r1"].pc = "done" /\ ~req["r1"].parsed
    /\ req["r1"].strm = "closed"
    /\ store[last.id].count = 1

(***************************************************************************)
(* Termination.                                                            *)
(***************************************************************************)
Running(r) == r.pc \notin {"idle", "done"}

\* C30: when every awaited call eventually returns or fails, a request ends:
\* it has emitted its terminal event and closed its stream, unless its caller
\* has disconnected in the meantime.
C30_RequestTerminates ==
    \A n \in 1..(MaxStarts + 1) :
        (started = n /\ Running(req["r1"])) ~>
            /\ started = n
            /\ req["r1"].pc = "done"
            /\ \/ req["r1"].strm = "cancelled"
               \/ /\ req["r1"].strm = "closed"
                  /\ IsTerminal(LastEvent(req["r1"]))

\* C30 witness: the last request of a run ended, answered, after its generator
\* call had failed.
C30_Witness ==
    /\ started = MaxStarts
    /\ Answered(req["r1"])
    /\ "generateChatResponse" \in req["r1"].failed
    /\ IsTerminal(LastEvent(req["r1"]))

(***************************************************************************)
(* The admin endpoints' claim.                                             *)
(***************************************************************************)
\* C26: generate-description and ingest issue no side effect (storage upload,
\* asset insert, embedding, vector upsert) unless the caller is authenticated
\* and its role row says admin; a caller whose role row is missing or cannot be
\* read is refused as a non-admin.
C26_AdminOnlySideEffects ==
    /\ [](/\ admin.effects # <<>> => (admin.user \in Users /\ admin.roleRow = "admin")
          /\ admin.roleRow \in {"missing", "error", "user"} =>
                (admin.pc = "done" /\ admin.status = 403 /\ admin.effects = <<>>)
          /\ admin.status = 200 => admin.roleRow = "admin")
    /\ [][(admin'.world # admin.world \/ Len(admin'.effects) > Len(admin.effects))
            => (admin'.user \in Users /\ admin'.roleRow = "admin")]_vars

\* C26 witness: an authenticated caller without a role row was refused by the
\* ingest route.
C26_Witness ==
    /\ admin.route = "ingest" /\ admin.user \in Users
    /\ admin.roleRow = "missing" /\ admin.status = 403 /\ admin.effects = <<>>

(***************************************************************************)
(* The chat page's claims.                                                 *)
(***************************************************************************)
IsAssistant(m) == m.role = "assistant"
Terminal(c) == c.sent[Len(c.sent)]
\* The stream was read to its end.
ReadAll(c) == c.pc = "done" /\ c.sent # <<>> /\ c.wire = <<>>

\* C27: the page adds an assistant message to the displayed conversation only
\* when the stream delivered a result event; when the stream ends with an
\* error event no assistant message is added and the error is shown to the
\* user.
C27_AssistantOnlyOnResult ==
    ReadAll(client) =>
       /\ (\E i \in 1..Len(client.messages) : IsAssistant(client.messages[i]))
             => \E k \in 1..Len(client.handled) : client.sent[client.handled[k]].type = "result"
       /\ Terminal(client).type = "error"
             => /\ \A i \in 1..Len(client.messages) : ~IsAssistant(client.messages[i])
                /\ client.alerted # ""

\* C28: the page handles every event of the response exactly once and in
\* order, however the response is cut into chunks; a result event reaches the
\* displayed conversation.
C28_EveryEventHandledOnce ==
    (ReadAll(client) /\ client.alerted = "") =>
       /\ client.handled = [k \in 1..Len(client.sent) |-> k]
       /\ Terminal(client).type = "result"
             => \E i \in 1..Len(client.messages) :
                   /\ IsAssistant(client.messages[i])
                   /\ client.messages[i].content = Terminal(client).text
                   /\ client.messages[i].assets = Terminal(client).assets

====
